---- MODULE Spec2Model ----
(***************************************************************************)
(* Model of the NASA PDF tool.                                             *)
(* app/pdf_processing.py:                                                  *)
(*   extract_text_from_pdf(file_path)     -> {"pages": [[span_info]]}      *)
(*   apply_text_edits_to_pdf(pdf_path, edits) -> bytes                     *)
(* app/routes.py: the upload, edit and save handlers around them, with the *)
(* JSON file that carries the extraction from upload to edit;              *)
(* app/utils.py: the threads that delete the stored files.                 *)
(* A document is a sequence of pages, a page a sequence of blocks, a text  *)
(* block (type 0) a sequence of lines, a line a sequence of spans, a span  *)
(* a dictionary.  Every call into the PDF library (open, page load,        *)
(* get_text, add_redact_annot, apply_redactions, insert_text, save) either *)
(* succeeds or raises; every call is recorded in log.                      *)
(* Spec runs one call of extract or apply, SpecExtract the upload from its *)
(* call of extract to the edit page, SpecWeb the three handlers and the    *)
(* deletion threads for one uploaded file.                                 *)
(***************************************************************************)
EXTENDS Integers, Sequences, FiniteSets, TLC

VARIABLES
    op,            \* which function was called: "extract" or "apply"
    file,          \* the document stored at file_path / pdf_path
    edits,         \* the edits argument: page key -> <<fragment key, new text>>*
    doc,           \* the pages of the open document handle (mutated by apply)
    redacts,       \* per page, the bboxes of the redaction annotations not yet applied
    handle,        \* "none", "open" or "closed"
    pc,            \* position in the function body
    page_number,   \* loop variable of the page loop
    spans,         \* apply: the spans re-derived for the current page
    todo,          \* apply: the items of page_edits not yet iterated
    annotations,   \* apply: the entries recorded for re-insertion
    item,          \* apply: index of the next entry of annotations to insert
    extraction,    \* extract: extraction["pages"]
    outcome,       \* "running", "raised" or "returned"
    output,        \* the returned value (pages of the saved document / extraction)
    log,           \* every library call made, in order
    sidecar,       \* the content of the extraction JSON file of the upload
    extraction_result, \* edit: the FragmentModel read back from the JSON file
    exists,        \* the files present in the upload folder
    timers,        \* per file, the state of its deletion thread
    req,           \* the request being handled, "idle" between requests
    response,      \* the response to the last request
    saves,         \* the number of save requests made
    plans          \* history: per save request that got its file, the plan apply made

\* the state of the routes around the two functions
web == <<sidecar, extraction_result, exists, timers, req, response, saves,
         plans>>

vars == <<op, file, edits, doc, redacts, handle, pc, page_number, spans, todo,
          annotations, item, extraction, outcome, output, log, web>>

(***************************************************************************)
(* Bounds of the model.                                                    *)
(***************************************************************************)
MaxPages == 2
MaxEdits == 2

(***************************************************************************)
(* Helpers on sequences.                                                   *)
(***************************************************************************)
Range(s) == {s[i] : i \in 1..Len(s)}

RECURSIVE Flatten(_)
Flatten(ss) == IF ss = <<>> THEN <<>> ELSE Head(ss) \o Flatten(Tail(ss))

SeqsUpTo(S, n) == UNION {[1..k -> S] : k \in 0..n}

(***************************************************************************)
(* dict.get(key, default) on a span dictionary.                            *)
(***************************************************************************)
Get(d, key, default) == IF key \in DOMAIN d THEN d[key] ELSE default

(***************************************************************************)
(* str(page_number) and int(span_index_str).  A key is a sequence of       *)
(* characters.  int() strips blanks, accepts one sign, then digits with    *)
(* single underscores between digits; anything else is a ValueError.       *)
(***************************************************************************)
Digits == <<"0", "1", "2", "3", "4", "5", "6", "7", "8", "9">>
DigitSet == Range(Digits)
DigitValues == [c \in DigitSet |-> CHOOSE d \in 0..9 : Digits[d + 1] = c]
DigitVal(c) == DigitValues[c]

RECURSIVE str(_)
str(n) == IF n < 10 THEN <<Digits[n + 1]>>
          ELSE str(n \div 10) \o <<Digits[(n % 10) + 1]>>

RECURSIVE Strip(_)
Strip(s) == IF s = <<>> THEN s
            ELSE IF Head(s) = " " THEN Strip(Tail(s))
            ELSE IF s[Len(s)] = " " THEN Strip(SubSeq(s, 1, Len(s) - 1))
            ELSE s

Unsigned(s) == IF s # <<>> /\ Head(s) \in {"+", "-"} THEN Tail(s) ELSE s

IsDigits(b) ==
    /\ b # <<>>
    /\ \A i \in 1..Len(b) : b[i] \in DigitSet \cup {"_"}
    /\ b[1] # "_" /\ b[Len(b)] # "_"
    /\ \A i \in 1..(Len(b) - 1) : ~(b[i] = "_" /\ b[i + 1] = "_")

RECURSIVE Magnitude(_, _)
Magnitude(b, acc) ==
    IF b = <<>> THEN acc
    ELSE IF Head(b) = "_" THEN Magnitude(Tail(b), acc)
    ELSE Magnitude(Tail(b), 10 * acc + DigitVal(Head(b)))

\* int(s) raises ValueError
IntRaises(s) == ~IsDigits(Unsigned(Strip(s)))

\* int(s), when it does not raise
int(s) ==
    LET t == Strip(s)
        m == Magnitude(Unsigned(t), 0)
    IN  IF Head(t) = "-" THEN 0 - m ELSE m

(***************************************************************************)
(* The traversal of page.get_text("dict"): the spans of the blocks of type *)
(* 0, in block, line, span order.                                          *)
(***************************************************************************)
TypeOf(block) == IF "type" \in DOMAIN block THEN block.type ELSE -1
\* `type == 1` is skipped in place of `type != 0`
IsTextBlock_NotImage(block) == TypeOf(block) # 1

\* block.get('type') != 0 is skipped
IsTextBlock(block) == TypeOf(block) = 0

BlockSpans(block) ==
    IF IsTextBlock(block) THEN Flatten(Get(block, "lines", <<>>)) ELSE <<>>

RECURSIVE PageSpans(_)
PageSpans(blocks) ==
    IF blocks = <<>> THEN <<>>
    ELSE BlockSpans(Head(blocks)) \o PageSpans(Tail(blocks))

\* span_info of extract_text_from_pdf
SpanInfo(span) ==
    [text  |-> Get(span, "text", ""),
     bbox  |-> Get(span, "bbox", <<>>),
     font  |-> Get(span, "font", ""),
     size  |-> Get(span, "size", 0),
     color |-> Get(span, "color", 0)]

ExtractPageSpans(blocks) ==
    LET s == PageSpans(blocks) IN [i \in 1..Len(s) |-> SpanInfo(s[i])]

(***************************************************************************)
(* The documents of the model.                                             *)
(***************************************************************************)
SpanHello == [text |-> "Hello", bbox |-> <<10, 10, 50, 20>>,
              font |-> "Helvetica", size |-> 12, color |-> 0]
SpanTitle == [text |-> "Title", bbox |-> <<10, 10, 50, 20>>,
              font |-> "Times", size |-> 10, color |-> 255]
\* overlaps SpanTitle; empty font name and size 0
SpanOver  == [text |-> "over", bbox |-> <<40, 15, 80, 25>>,
              font |-> "", size |-> 0, color |-> 0]
\* a span without bbox, font and size
SpanBare  == [text |-> "bare"]

ImageBlock == [type |-> 1]
TextBlock(lines) == [type |-> 0, lines |-> lines]

PageHello == <<TextBlock(<< <<SpanHello>> >>)>>
PageImage == <<ImageBlock>>
PageMixed == <<TextBlock(<< <<SpanTitle, SpanOver>> >>), ImageBlock,
               TextBlock(<< <<SpanBare>> >>)>>

PageKinds == {PageHello, PageImage, PageMixed}
Documents == SeqsUpTo(PageKinds, MaxPages)

(***************************************************************************)
(* The EditSets of the model.                                              *)
(***************************************************************************)
FragKeys == {<<"0">>, <<"1">>, <<"2">>, <<"0", "1">>, <<"-", "1">>, <<"x">>}
PageKeys == {str(0), str(1)}
\* page keys that name no page of any document of the model
StrayPageKeys == {<<"5">>, <<"x">>}

NewTextOf(fk) ==
    CASE fk = <<"0">> -> "Bonjour"
      [] fk = <<"1">> -> "Salut"
      [] fk = <<"0", "1">> -> "Hallo"
      [] OTHER -> "Ciao"

\* one entry: a page key alone (a page with an empty mapping) or a page key
\* with a fragment key
Entries == {<<pk>> : pk \in PageKeys}
           \cup {<<pk, fk>> : pk \in PageKeys, fk \in FragKeys}
           \cup {<<pk, <<"0">>>> : pk \in StrayPageKeys}

EntryLists == {s \in SeqsUpTo(Entries, MaxEdits) :
                  \A i, j \in 1..Len(s) : i < j => s[i] # s[j]}

RECURSIVE PageEditsOf(_, _)
PageEditsOf(s, pk) ==
    IF s = <<>> THEN <<>>
    ELSE IF Head(s)[1] = pk /\ Len(Head(s)) = 2
         THEN <<<<Head(s)[2], NewTextOf(Head(s)[2])>>>> \o PageEditsOf(Tail(s), pk)
         ELSE PageEditsOf(Tail(s), pk)

EditSetOf(s) == [pk \in {e[1] : e \in Range(s)} |-> PageEditsOf(s, pk)]
EditSets == {EditSetOf(s) : s \in EntryLists}
(***************************************************************************)
(* The library's effect on the page content.                               *)
(***************************************************************************)
Intersects(a, b) ==
    /\ Len(a) = 4 /\ Len(b) = 4
    /\ a[1] < b[3] /\ b[1] < a[3] /\ a[2] < b[4] /\ b[2] < a[4]

HasBBox(span) == "bbox" \in DOMAIN span /\ span.bbox # <<>>

Erased(span, rects) ==
    HasBBox(span) /\ \E r \in rects : Intersects(span.bbox, r)

KeepSpans(line, rects) == SelectSeq(line, LAMBDA sp : ~Erased(sp, rects))

RECURSIVE KeepLines(_, _)
KeepLines(lines, rects) ==
    IF lines = <<>> THEN <<>>
    ELSE LET l == KeepSpans(Head(lines), rects)
         IN  (IF l = <<>> THEN <<>> ELSE <<l>>) \o KeepLines(Tail(lines), rects)

\* page.apply_redactions(): the text under a redaction annotation is removed
RECURSIVE Redacted(_, _)
Redacted(blocks, rects) ==
    IF blocks = <<>> THEN <<>>
    ELSE LET b == Head(blocks)
             l == KeepLines(Get(b, "lines", <<>>), rects)
         IN  (IF ~IsTextBlock(b) THEN <<b>>
              ELSE IF l = <<>> THEN <<>>
              ELSE <<TextBlock(l)>>) \o Redacted(Tail(blocks), rects)

\* page.insert_text(point, text, fontname, fontsize, color): one more text block
Inserted(blocks, point, text, fontname, fontsize) ==
    Append(blocks,
           TextBlock(<< <<[text  |-> text,
                           bbox  |-> <<point[1], point[2] - fontsize,
                                       point[1] + fontsize, point[2]>>,
                           font  |-> fontname,
                           size  |-> fontsize,
                           color |-> 0]>> >>))

(***************************************************************************)
(* The record of one library call.                                         *)
(***************************************************************************)
NoColor == <<>>
White   == <<1, 1, 1>>
Black   == <<0, 0, 0>>

Call(c, p, ok) ==
    [call |-> c, page |-> p, ok |-> ok, index |-> -1, bbox |-> <<>>,
     text |-> "", font |-> "", size |-> 0, color |-> NoColor]

\* index and text are not arguments of the call: they tell which edit it is for
MarkCall(p, i, bbox, new_text, ok) ==
    [Call("add_redact_annot", p, ok) EXCEPT !.index = i, !.bbox = bbox,
                                            !.text = new_text, !.color = White]

\* the anchor without the adjustment of one unit
InsertCall_OnBottomEdge(p, it, ok) ==
    [Call("insert_text", p, ok) EXCEPT
        !.index = it.index,
        !.bbox  = <<it.bbox[1], it.bbox[4]>>,
        !.text  = it.new_text,
        !.font  = it.font,
        !.size  = it.size,
        !.color = Black]

\* page.insert_text(insertion_point, new_text, fontname, fontsize, color)
InsertCall(p, it, ok) ==
    [Call("insert_text", p, ok) EXCEPT
        !.index = it.index,
        !.bbox  = <<it.bbox[1], it.bbox[4] - 1>>,
        !.text  = it.new_text,
        !.font  = it.font,
        !.size  = it.size,
        !.color = Black]

(***************************************************************************)
(* The values of the serialization boundary: a Python value is a record of *)
(* its type and content, a JSON text a record of its kind and content.     *)
(***************************************************************************)
None   == [py |-> "None", val |-> <<>>]
NoJson == [js |-> "absent", val |-> <<>>]

(***************************************************************************)
(* The upload folder: the stored PDF and its extraction JSON, each with    *)
(* the thread that deletes it, and the response of a request.              *)
(***************************************************************************)
file_path == "pdf"
json_path == "json"
Paths == {file_path, json_path}
NoTimers == [f \in Paths |-> "none"]
NoResponse == [kind |-> "none", to |-> "", body |-> <<>>]

(***************************************************************************)
(* Initial state: a function is called on a stored document.               *)
(***************************************************************************)
Init ==
    /\ op \in {"extract", "apply"}
    /\ file \in Documents
    /\ edits \in (IF op = "apply" THEN EditSets ELSE {EditSetOf(<<>>)})
    /\ doc = <<>>
    /\ redacts = <<>>
    /\ handle = "none"
    /\ pc = "open"
    /\ page_number = 0
    /\ spans = <<>>
    /\ todo = <<>>
    /\ annotations = <<>>
    /\ item = 1
    /\ extraction = <<>>
    /\ outcome = "running"
    /\ output = <<>>
    /\ log = <<>>
    /\ sidecar = NoJson
    /\ extraction_result = None
    /\ exists = {file_path}
    /\ timers = NoTimers
    /\ req = "call"
    /\ response = NoResponse
    /\ saves = 0
    /\ plans = <<>>

Raise ==
    /\ pc' = "done"
    /\ outcome' = "raised"

(***************************************************************************)
(* fitz.open (lines 41-45 and 101-105)                                     *)
(***************************************************************************)
OpenDone ==
    /\ file_path \in exists
    /\ log' = Append(log, Call("open", -1, TRUE))
    /\ doc' = file
    /\ redacts' = [p \in 1..Len(file) |-> {}]
    /\ handle' = "open"
    /\ pc' = "page"
    /\ UNCHANGED outcome

OpenFailed_Swallowed ==
    /\ log' = Append(log, Call("open", -1, FALSE))
    /\ doc' = <<>>
    /\ redacts' = <<>>
    /\ handle' = "open"
    /\ pc' = "page"
    /\ UNCHANGED outcome

\* lines 43-45 and 103-105: log and re-raise
OpenFailed ==
    /\ log' = Append(log, Call("open", -1, FALSE))
    /\ Raise
    /\ UNCHANGED <<doc, redacts, handle>>

Open ==
    /\ pc = "open"
    /\ (OpenDone \/ OpenFailed)
    /\ UNCHANGED web
    /\ UNCHANGED <<op, file, edits, page_number, spans, todo, annotations,
                   item, extraction, output>>

(***************************************************************************)
(* extract_text_from_pdf: one iteration of the page loop (lines 49-70),    *)
(* or the end of the loop (lines 72-73)                                    *)
(***************************************************************************)
ExtractPage ==
    /\ op = "extract" /\ pc = "page"
    /\ page_number < Len(doc)
    /\ \E loaded, read \in BOOLEAN :
        /\ ~loaded => ~read
        /\ log' = IF loaded
                  THEN log \o <<Call("load_page", page_number, TRUE),
                                Call("get_text", page_number, read)>>
                  ELSE Append(log, Call("load_page", page_number, FALSE))
        /\ IF read
           THEN /\ extraction' = Append(extraction,
                                        ExtractPageSpans(doc[page_number + 1]))
                /\ page_number' = page_number + 1
                /\ UNCHANGED <<pc, outcome>>
           ELSE /\ Raise
                /\ UNCHANGED <<extraction, page_number>>
    /\ UNCHANGED web
    /\ UNCHANGED <<op, file, edits, doc, redacts, handle, spans, todo,
                   annotations, item, output>>

ExtractReturn ==
    /\ op = "extract" /\ pc = "page"
    /\ page_number >= Len(doc)
    /\ log' = Append(log, Call("close", -1, TRUE))
    /\ handle' = "closed"
    /\ output' = extraction
    /\ outcome' = "returned"
    /\ pc' = "done"
    /\ UNCHANGED web
    /\ UNCHANGED <<op, file, edits, doc, redacts, page_number, spans, todo,
                   annotations, item, extraction>>
(***************************************************************************)
(* apply_text_edits_to_pdf: the head of one iteration of the page loop     *)
(* (lines 108-126): load the page, skip it when it has no edits, otherwise *)
(* re-derive its spans.                                                    *)
(***************************************************************************)
\* `break` in place of `continue` at a block that is not text
RECURSIVE RederiveSpans_StopsAtImage(_)
RederiveSpans_StopsAtImage(blocks) ==
    IF blocks = <<>> THEN <<>>
    ELSE IF TypeOf(Head(blocks)) # 0 THEN <<>>
    ELSE Flatten(Get(Head(blocks), "lines", <<>>))
         \o RederiveSpans_StopsAtImage(Tail(blocks))

\* the traversal of lines 116-122, written out a second time in the code
RECURSIVE RederiveSpans(_)
RederiveSpans(blocks) ==
    IF blocks = <<>> THEN <<>>
    ELSE (IF TypeOf(Head(blocks)) # 0 THEN <<>>
          ELSE Flatten(Get(Head(blocks), "lines", <<>>)))
         \o RederiveSpans(Tail(blocks))

PageKey_OneBased(n) == str(n + 1)

\* page_key = str(page_number)
PageKey(n) == str(n)

ApplyPage ==
    /\ op = "apply" /\ pc = "page"
    /\ page_number < Len(doc)
    /\ LET page_key == PageKey(page_number)
           skip == page_key \notin DOMAIN edits
       IN  \E loaded, read \in BOOLEAN :
            /\ ~loaded => ~read
            /\ skip => read = loaded
            /\ log' = IF loaded /\ ~skip
                      THEN log \o <<Call("load_page", page_number, TRUE),
                                    Call("get_text", page_number, read)>>
                      ELSE Append(log, Call("load_page", page_number, loaded))
            /\ IF ~read
               THEN /\ Raise
                    /\ UNCHANGED <<page_number, spans, todo, annotations>>
               ELSE IF skip
               THEN /\ page_number' = page_number + 1
                    /\ UNCHANGED <<pc, outcome, spans, todo, annotations>>
               ELSE /\ spans' = RederiveSpans(doc[page_number + 1])
                    /\ annotations' = <<>>
                    /\ todo' = edits[page_key]
                    /\ pc' = "plan"
                    /\ UNCHANGED <<page_number, outcome>>
    /\ UNCHANGED web
    /\ UNCHANGED <<op, file, edits, doc, redacts, handle, item, extraction,
                   output>>

(***************************************************************************)
(* One iteration of the loop over page_edits.items() (lines 127-159).      *)
(***************************************************************************)
OutOfRange_OffByOne(span_index, n) == span_index < 0 \/ span_index > n

\* span_index < 0 or span_index >= len(spans)
OutOfRange(span_index, n) == span_index < 0 \/ span_index >= n

\* spans[span_index]: a negative index counts from the end, an index outside
\* -len .. len-1 raises IndexError
IndexError(span_index, n) == span_index >= n \/ span_index < 0 - n
PyIndex(s, i) == IF i < 0 THEN s[Len(s) + i + 1] ELSE s[i + 1]

PlanEntry(span_index, span, new_text) ==
    [annot    |-> Cardinality(redacts[page_number + 1]) + 1,
     index    |-> span_index,          \* not in the code: which span it is
     bbox     |-> span.bbox,
     font     |-> Get(span, "font", "helv"),
     size     |-> Get(span, "size", 12),
     color    |-> Get(span, "color", 0),
     new_text |-> new_text]

\* the `continue` of lines 134-142
SkipEdit ==
    /\ todo' = Tail(todo)
    /\ UNCHANGED <<redacts, annotations, log, pc, outcome>>

InvalidSpanIndex_Raises ==
    /\ Raise
    /\ UNCHANGED <<todo, redacts, annotations, log>>

\* the ValueError handler of lines 130-132: log and `continue`
InvalidSpanIndex ==
    /\ todo' = Tail(todo)
    /\ UNCHANGED <<redacts, annotations, log, pc, outcome>>

\* the replacement text is drawn as soon as the mark is added
MarkAdded_InsertsAtOnce(span_index, span, new_text) ==
    /\ log' = log \o <<MarkCall(page_number, span_index, span.bbox,
                                new_text, TRUE),
                       InsertCall(page_number,
                                  PlanEntry(span_index, span, new_text), TRUE)>>
    /\ redacts' = [redacts EXCEPT ![page_number + 1] = @ \cup {span.bbox}]
    /\ todo' = Tail(todo)
    /\ UNCHANGED <<annotations, pc, outcome>>

\* add_redact_annot returned: lines 147-156
MarkAdded(span_index, span, new_text) ==
    /\ log' = Append(log, MarkCall(page_number, span_index, span.bbox,
                                   new_text, TRUE))
    /\ redacts' = [redacts EXCEPT ![page_number + 1] = @ \cup {span.bbox}]
    /\ annotations' = Append(annotations, PlanEntry(span_index, span, new_text))
    /\ todo' = Tail(todo)
    /\ UNCHANGED <<pc, outcome>>

MarkFailed_StillPlanned(span_index, span, new_text) ==
    /\ log' = Append(log, MarkCall(page_number, span_index, span.bbox,
                                   new_text, FALSE))
    /\ annotations' = Append(annotations, PlanEntry(span_index, span, new_text))
    /\ todo' = Tail(todo)
    /\ UNCHANGED <<redacts, pc, outcome>>

\* add_redact_annot raised: lines 157-159
MarkFailed(span_index, span, new_text) ==
    /\ log' = Append(log, MarkCall(page_number, span_index, span.bbox,
                                   new_text, FALSE))
    /\ todo' = Tail(todo)
    /\ UNCHANGED <<redacts, annotations, pc, outcome>>

ApplyPlan ==
    /\ op = "apply" /\ pc = "plan"
    /\ todo # <<>>
    /\ LET span_index_str == Head(todo)[1]
           new_text == Head(todo)[2]
       IN  IF IntRaises(span_index_str) THEN InvalidSpanIndex
           ELSE LET span_index == int(span_index_str) IN
                IF OutOfRange(span_index, Len(spans)) THEN SkipEdit
                ELSE IF IndexError(span_index, Len(spans))
                THEN /\ Raise
                     /\ UNCHANGED <<todo, redacts, annotations, log>>
                ELSE LET span == PyIndex(spans, span_index) IN
                     IF ~HasBBox(span) THEN SkipEdit
                     ELSE \/ MarkAdded(span_index, span, new_text)
                          \/ MarkFailed(span_index, span, new_text)
    /\ UNCHANGED web
    /\ UNCHANGED <<op, file, edits, doc, handle, page_number, spans, item,
                   extraction, output>>

(***************************************************************************)
(* page.apply_redactions() (lines 161-166).                                *)
(***************************************************************************)
CommitDone ==
    /\ log' = Append(log, Call("apply_redactions", page_number, TRUE))
    /\ doc' = [doc EXCEPT ![page_number + 1] =
                    Redacted(@, redacts[page_number + 1])]
    /\ redacts' = [redacts EXCEPT ![page_number + 1] = {}]
    /\ item' = 1
    /\ pc' = "insert"
    /\ UNCHANGED <<page_number, outcome>>

CommitFailed_FallsThrough ==
    /\ log' = Append(log, Call("apply_redactions", page_number, FALSE))
    /\ item' = 1
    /\ pc' = "insert"
    /\ UNCHANGED <<doc, redacts, page_number, outcome>>

\* lines 164-166: log and `continue` with the next page
CommitFailed ==
    /\ log' = Append(log, Call("apply_redactions", page_number, FALSE))
    /\ page_number' = page_number + 1
    /\ pc' = "page"
    /\ UNCHANGED <<doc, redacts, item, outcome>>

ApplyCommit ==
    /\ op = "apply" /\ pc = "plan"
    /\ todo = <<>>
    /\ (CommitDone \/ CommitFailed)
    /\ UNCHANGED web
    /\ UNCHANGED <<op, file, edits, handle, spans, todo, annotations,
                   extraction, output>>

(***************************************************************************)
(* One iteration of the re-insertion loop (lines 168-185), or its end.     *)
(***************************************************************************)
InsertDone(it) ==
    /\ log' = Append(log, InsertCall(page_number, it, TRUE))
    /\ doc' = [doc EXCEPT ![page_number + 1] =
                    Inserted(@, <<it.bbox[1], it.bbox[4] - 1>>, it.new_text,
                             it.font, it.size)]
    /\ item' = item + 1
    /\ UNCHANGED <<pc, outcome>>

InsertFailed_Breaks(it) ==
    /\ log' = Append(log, InsertCall(page_number, it, FALSE))
    /\ item' = Len(annotations) + 1
    /\ UNCHANGED <<doc, pc, outcome>>

\* lines 183-185: log and `continue` with the next entry
InsertFailed(it) ==
    /\ log' = Append(log, InsertCall(page_number, it, FALSE))
    /\ item' = item + 1
    /\ UNCHANGED <<doc, pc, outcome>>

ApplyInsert ==
    /\ op = "apply" /\ pc = "insert"
    /\ item <= Len(annotations)
    /\ (InsertDone(annotations[item]) \/ InsertFailed(annotations[item]))
    /\ UNCHANGED web
    /\ UNCHANGED <<op, file, edits, redacts, handle, page_number, spans,
                   todo, annotations, extraction, output>>

ApplyNextPage ==
    /\ op = "apply" /\ pc = "insert"
    /\ item > Len(annotations)
    /\ page_number' = page_number + 1
    /\ pc' = "page"
    /\ UNCHANGED web
    /\ UNCHANGED <<op, file, edits, doc, redacts, handle, spans, todo,
                   annotations, item, extraction, outcome, output, log>>

(***************************************************************************)
(* doc.save(output_buffer), doc.close() and the return (lines 187-197).    *)
(***************************************************************************)
\* doc.save writes over the stored file
SaveDone_OverStoredFile ==
    /\ log' = log \o <<Call("save", -1, TRUE), Call("close", -1, TRUE)>>
    /\ handle' = "closed"
    /\ output' = doc
    /\ outcome' = "returned"
    /\ pc' = "done"
    /\ file' = doc

\* doc.save(output_buffer): the buffer is written, the stored file is not
SaveDone ==
    /\ log' = log \o <<Call("save", -1, TRUE), Call("close", -1, TRUE)>>
    /\ handle' = "closed"
    /\ output' = doc
    /\ outcome' = "returned"
    /\ pc' = "done"
    /\ UNCHANGED file

SaveFailed_ReturnsBuffer ==
    /\ log' = Append(log, Call("save", -1, FALSE))
    /\ output' = doc
    /\ outcome' = "returned"
    /\ pc' = "done"
    /\ UNCHANGED <<handle, file>>

\* lines 192-194: log and re-raise
SaveFailed ==
    /\ log' = Append(log, Call("save", -1, FALSE))
    /\ Raise
    /\ UNCHANGED <<handle, output, file>>

ApplySave ==
    /\ op = "apply" /\ pc = "page"
    /\ page_number >= Len(doc)
    /\ (SaveDone \/ SaveFailed)
    /\ UNCHANGED web
    /\ UNCHANGED <<op, edits, doc, redacts, page_number, spans, todo,
                   annotations, item, extraction>>

Next ==
    \/ Open
    \/ ExtractPage
    \/ ExtractReturn
    \/ ApplyPage
    \/ ApplyPlan
    \/ ApplyCommit
    \/ ApplyInsert
    \/ ApplyNextPage
    \/ ApplySave

Spec == Init /\ [][Next]_vars

TypeOK ==
    /\ op \in {"extract", "apply"}
    /\ handle \in {"none", "open", "closed"}
    /\ pc \in {"idle", "open", "page", "plan", "insert", "done"}
    /\ exists \subseteq Paths
    /\ req \in {"call", "idle", "upload", "save"}
    /\ outcome \in {"running", "raised", "returned"}
    /\ page_number \in 0..Len(file)
(***************************************************************************)
(* Vocabulary of the properties.  The EditSet is read as the specification *)
(* reads it: a key is an integer key when it is an optional minus sign     *)
(* followed by decimal digits, and it then denotes that integer.           *)
(***************************************************************************)
KeyDigits(k) == IF k # <<>> /\ Head(k) = "-" THEN Tail(k) ELSE k
IsIntKey(k) ==
    LET d == KeyDigits(k) IN d # <<>> /\ \A i \in 1..Len(d) : d[i] \in DigitSet

RECURSIVE DigitsValue(_)
DigitsValue(d) ==
    IF d = <<>> THEN 0
    ELSE 10 * DigitsValue(SubSeq(d, 1, Len(d) - 1)) + DigitVal(d[Len(d)])

KeyInt(k) == IF Head(k) = "-" THEN 0 - DigitsValue(Tail(k)) ELSE DigitsValue(k)

PageIndexes == 0..(Len(file) - 1)

\* the page index p has an entry in the EditSet
HasEntry(p) == \E k \in DOMAIN edits : IsIntKey(k) /\ KeyInt(k) = p
EditsFor(p) ==
    IF HasEntry(p)
    THEN edits[CHOOSE k \in DOMAIN edits : IsIntKey(k) /\ KeyInt(k) = p]
    ELSE <<>>

\* the fragments extract reports for page p of the stored document
Reported == [blocks \in PageKinds |-> ExtractPageSpans(blocks)]
Fragments(p) == Reported[file[p + 1]]

\* the edit e names a fragment of the list f / one that has a bounding box
InRangeIn(f, e) == IsIntKey(e[1]) /\ KeyInt(e[1]) >= 0 /\ KeyInt(e[1]) < Len(f)
ValidIn(f, e) == InRangeIn(f, e) /\ f[KeyInt(e[1]) + 1].bbox # <<>>
InRangeEdit(p, e) == InRangeIn(Fragments(p), e)

InRangeEdits(p) ==
    LET f == Fragments(p) IN SelectSeq(EditsFor(p), LAMBDA e : InRangeIn(f, e))
ValidEdits(p) ==
    LET f == Fragments(p) IN SelectSeq(EditsFor(p), LAMBDA e : ValidIn(f, e))

\* an edit as <<fragment index, replacement text>>
Targets(es) == [i \in 1..Len(es) |-> <<KeyInt(es[i][1]), es[i][2]>>]

\* the library calls of the log
Calls(c, p) == SelectSeq(log, LAMBDA e : e.call = c /\ e.page = p)
Succeeded(s) == SelectSeq(s, LAMBDA e : e.ok)
Failed(s) == SelectSeq(s, LAMBDA e : ~e.ok)
TargetsOf(s) == [i \in 1..Len(s) |-> <<s[i].index, s[i].text>>]
Marks(p) == Calls("add_redact_annot", p)
Commits(p) == Calls("apply_redactions", p)
Inserts(p) == Calls("insert_text", p)
EditCalls == {"add_redact_annot", "apply_redactions", "insert_text"}
PageCalls(p) == SelectSeq(log, LAMBDA e : e.page = p /\ e.call \in EditCalls)
AllOk == \A i \in 1..Len(log) : log[i].ok

\* the page loop has finished with page p
PageDone(p) == op = "apply" /\ handle # "none" /\ p < page_number

\* the calls whose exception no handler of apply absorbs
Unguarded == {"open", "load_page", "get_text", "save"}
RaisedByLibrary ==
    outcome = "raised" =>
        /\ log # <<>>
        /\ ~log[Len(log)].ok
        /\ log[Len(log)].call \in Unguarded

\* page p was marked, committed and reinserted for exactly the edits es
AppliedExactly(p, es) ==
    /\ TargetsOf(Succeeded(Marks(p))) = Targets(es)
    /\ Len(Succeeded(Commits(p))) = 1
    /\ TargetsOf(Succeeded(Inserts(p))) = Targets(es)
    /\ PageCalls(p) = Marks(p) \o Commits(p) \o Inserts(p)

NoCallOutOfRange ==
    \A p \in PageIndexes :
        LET n == Len(Fragments(p)) IN
        \A i \in 1..Len(log) :
            (log[i].page = p
             /\ log[i].call \in {"add_redact_annot", "insert_text"}) =>
                log[i].index >= 0 /\ log[i].index < n

(***************************************************************************)
(* C1 as stated: an edit whose fragment index is out of range causes no    *)
(* redaction mark and no insertion and does not make apply raise, and      *)
(* every edit whose index is in range is marked, committed and reinserted: *)
(* whenever apply returns, no call aimed at an index out of range, and     *)
(* when no library call failed every page with an entry was marked,        *)
(* committed and reinserted for exactly its in-range edits.                *)
(***************************************************************************)
C1_InRangeEditsAllApplied ==
    op = "apply" =>
        /\ RaisedByLibrary
        /\ outcome = "returned" =>
            /\ NoCallOutOfRange
            /\ AllOk =>
                \A p \in PageIndexes :
                    HasEntry(p) => AppliedExactly(p, InRangeEdits(p))

(***************************************************************************)
(* C1 amended: an edit whose fragment index is out of range causes no      *)
(* redaction mark and no insertion and does not make apply raise, and      *)
(* every edit whose index is in range and whose fragment has a bounding    *)
(* box is marked, committed and reinserted: whenever apply returns, no     *)
(* call aimed at an index out of range, and when no library call failed    *)
(* every page with an entry was marked, committed and reinserted for       *)
(* exactly its in-range edits on fragments that have a bounding box.       *)
(***************************************************************************)
C1_OutOfRangeTolerance ==
    op = "apply" =>
        /\ RaisedByLibrary
        /\ outcome = "returned" =>
            /\ NoCallOutOfRange
            /\ AllOk =>
                \A p \in PageIndexes :
                    HasEntry(p) => AppliedExactly(p, ValidEdits(p))

C1_Witness ==
    /\ op = "apply" /\ outcome = "returned" /\ AllOk
    /\ \E p \in PageIndexes :
        /\ \E i \in 1..Len(EditsFor(p)) :
            /\ IsIntKey(EditsFor(p)[i][1])
            /\ ~InRangeEdit(p, EditsFor(p)[i])
        /\ ValidEdits(p) # <<>>
        /\ Len(Succeeded(Inserts(p))) = Len(ValidEdits(p))

(***************************************************************************)
(* C2: an entry with a non-integer page key or fragment key is ignored     *)
(* (no mark, no insertion), apply does not raise because of it, and the    *)
(* well-formed entries are applied as if it were absent: whenever apply    *)
(* returns, a page without a well-formed entry saw no call but its load,   *)
(* the marks attempted on every page are exactly those of its valid        *)
(* integer-keyed edits, and all of them are reinserted when no library     *)
(* call failed.                                                            *)
(***************************************************************************)
C2_MalformedKeyTolerance ==
    op = "apply" =>
        /\ RaisedByLibrary
        /\ outcome = "returned" =>
            \A p \in PageIndexes :
                /\ ~HasEntry(p) =>
                    \A i \in 1..Len(log) :
                        log[i].page = p => log[i].call = "load_page"
                /\ TargetsOf(Marks(p)) = Targets(ValidEdits(p))
                /\ AllOk => TargetsOf(Inserts(p)) = Targets(ValidEdits(p))

C2_Witness ==
    /\ op = "apply" /\ outcome = "returned" /\ AllOk
    /\ \E p \in PageIndexes :
        /\ \E i \in 1..Len(EditsFor(p)) : ~IsIntKey(EditsFor(p)[i][1])
        /\ ValidEdits(p) # <<>>
        /\ TargetsOf(Succeeded(Inserts(p))) = Targets(ValidEdits(p))

(***************************************************************************)
(* C3: a page whose index has no entry in the EditSet is left untouched:   *)
(* whenever apply returns, the text of such a page was not read, nothing   *)
(* was marked, committed or inserted on it and its content in the saved    *)
(* document is that of the stored document; an EditSet that names only     *)
(* pages beyond the page count leaves the whole document unchanged and     *)
(* does not make apply raise.                                              *)
(***************************************************************************)
C3_PagesWithoutEntryUntouched ==
    op = "apply" =>
        /\ RaisedByLibrary
        /\ outcome = "returned" =>
            /\ \A p \in PageIndexes :
                ~HasEntry(p) =>
                    /\ PageCalls(p) = <<>>
                    /\ Calls("get_text", p) = <<>>
                    /\ doc[p + 1] = file[p + 1]
                    /\ redacts[p + 1] = {}
                    /\ output[p + 1] = file[p + 1]
            /\ (\A p \in PageIndexes : ~HasEntry(p)) => output = file

C3_Witness ==
    /\ op = "apply" /\ outcome = "returned"
    /\ Len(file) = 2
    /\ DOMAIN edits = {<<"5">>}
    /\ edits[<<"5">>] # <<>>
    /\ output = file

(***************************************************************************)
(* C4: when the redaction commit of a page fails, nothing is inserted on   *)
(* that page, apply does not raise because of it, and every later page     *)
(* with an entry in the EditSet is still planned, committed and, after a   *)
(* successful commit, reinserted: whenever apply returns, a page whose     *)
(* commit failed saw one commit and no insertion, and every later page     *)
(* with an entry was processed.                                            *)
(***************************************************************************)
Processed(q) ==
    /\ TargetsOf(Marks(q)) = Targets(ValidEdits(q))
    /\ Len(Commits(q)) = 1
    /\ Succeeded(Commits(q)) # <<>> =>
           TargetsOf(Inserts(q)) = TargetsOf(Succeeded(Marks(q)))
    /\ PageCalls(q) = Marks(q) \o Commits(q) \o Inserts(q)

TargetSet(s) == {<<s[i].index, s[i].text>> : i \in 1..Len(s)}

C7_RaisesOnlyOnOpenOrSave ==
    (op = "apply" /\ pc = "done") =>
        IF \E i \in 1..Len(log) : log[i].call \in {"open", "save"} /\ ~log[i].ok
        THEN outcome = "raised"
        ELSE outcome = "returned" /\ output = doc

(***************************************************************************)
(* C8: when the document cannot be opened, extract and apply raise and     *)
(* produce no output: nothing is returned and no page is read, marked,     *)
(* committed or inserted into.                                             *)
(***************************************************************************)
OpenHasFailed == log # <<>> /\ log[1].call = "open" /\ ~log[1].ok

C8_OpenFailureNoPartialOutput ==
    /\ \A i \in 1..Len(log) : log[i].call = "open" => i = 1
    /\ OpenHasFailed =>
        /\ outcome = "raised"
        /\ pc = "done"
        /\ Len(log) = 1
        /\ output = <<>>
        /\ extraction = <<>>
        /\ handle = "none"

C8_Witness ==
    /\ OpenHasFailed
    /\ op = "apply"
    /\ Len(file) = 2
    /\ HasEntry(0) /\ ValidEdits(0) # <<>>
    /\ outcome = "raised"

(***************************************************************************)
(* C9: when the final document write fails, apply raises and returns no    *)
(* bytes, whatever errors were absorbed before; the write is attempted at  *)
(* most once, after every page has been processed, and nothing follows it  *)
(* but the close of the document.                                          *)
(***************************************************************************)
SavePositions == {i \in 1..Len(log) : log[i].call = "save"}

C9_SaveFailureIsFatal ==
    op = "apply" =>
        /\ Cardinality(SavePositions) <= 1
        /\ outcome = "returned" => Cardinality(SavePositions) = 1
        /\ \A i \in SavePositions :
            /\ \A p \in PageIndexes :
                \E j \in 1..(i - 1) : log[j].call = "load_page" /\ log[j].page = p
            /\ \A p \in PageIndexes : PageDone(p)
            /\ \A j \in (i + 1)..Len(log) : log[j].call = "close"
            /\ IF log[i].ok
               THEN outcome = "returned" /\ output = doc
               ELSE outcome = "raised" /\ output = <<>> /\ i = Len(log)

C9_Witness ==
    /\ op = "apply" /\ outcome = "raised"
    /\ log[Len(log)].call = "save"
    /\ \E i \in 1..Len(log) : log[i].call \in EditCalls /\ ~log[i].ok
    /\ doc # file

(***************************************************************************)
(* C10: the fragment list apply re-derives for a page of the unmodified    *)
(* stored document equals, in count and order, the list extract reports    *)
(* for that page, so an edit keyed (p, i) is aimed at the bbox of the      *)
(* fragment extract reported as fragment i of page p.                      *)
(***************************************************************************)
C10_RederivationMatchesExtract ==
    op = "apply" =>
        /\ pc \in {"plan", "insert"} =>
            /\ Len(spans) = Len(Fragments(page_number))
            /\ [i \in 1..Len(spans) |-> SpanInfo(spans[i])] = Fragments(page_number)
        /\ \A p \in PageIndexes :
            LET f == Fragments(p) IN
            \A i \in 1..Len(log) :
                (log[i].page = p /\ log[i].call = "add_redact_annot") =>
                    /\ log[i].index + 1 \in 1..Len(f)
                    /\ log[i].bbox = f[log[i].index + 1].bbox

C10_Witness ==
    /\ op = "apply" /\ pc = "plan"
    /\ page_number > 0
    /\ doc[1] # file[1]
    /\ Len(spans) >= 2
    /\ \E i \in 1..Len(log) :
        log[i].call = "add_redact_annot" /\ log[i].page = page_number

(***************************************************************************)
(* C11: whenever apply returns, every fragment of the stored document      *)
(* whose index was not the target of a redaction mark is still a fragment  *)
(* of the same page of the saved document (it was not erased), whatever    *)
(* the bounding boxes of the marked fragments are.                         *)
(***************************************************************************)
MarkedIndexes(p) ==
    {log[i].index : i \in {j \in 1..Len(log) :
        log[j].page = p /\ log[j].call = "add_redact_annot" /\ log[j].ok}}

C11_UntargetedFragmentsIntact ==
    (op = "apply" /\ outcome = "returned") =>
        \A p \in PageIndexes :
            LET before == PageSpans(file[p + 1])
                after  == Range(PageSpans(output[p + 1]))
                marked == MarkedIndexes(p)
            IN  \A i \in 1..Len(before) :
                    (i - 1) \notin marked => before[i] \in after

(***************************************************************************)
(* The serialization boundary (routes.py): upload writes the result of     *)
(* extract with json.dump, edit reads it back with json.load.  json.dump   *)
(* writes a dict as an object, a list or a tuple as an array, a str as a   *)
(* string, an int as its digits and a float as its repr; json.load reads   *)
(* an object as a dict, an array as a list, a number with a fraction as a  *)
(* float and any other number as an int.  The floats of the model are      *)
(* whole: n.0.                                                             *)
(***************************************************************************)
PyStr(s)   == [py |-> "str", val |-> s]
PyInt(n)   == [py |-> "int", val |-> n]
PyFloat(n) == [py |-> "float", val |-> n]
PyList(s)  == [py |-> "list", val |-> s]
PyTuple(s) == [py |-> "tuple", val |-> s]
\* a dict as its items, in insertion order
PyDict(s)  == [py |-> "dict", val |-> s]

\* span_info as the Python value it is: the library gives bbox as a tuple
\* of floats, size as a float and color as an int; the defaults of lines
\* 62-68 are the list [] and the int 0
PySpanInfo(f) ==
    PyDict(<< <<"text", PyStr(f.text)>>,
              <<"bbox", IF f.bbox = <<>> THEN PyList(<<>>)
                        ELSE PyTuple([i \in 1..Len(f.bbox) |-> PyFloat(f.bbox[i])])>>,
              <<"font", PyStr(f.font)>>,
              <<"size", IF f.size = 0 THEN PyInt(0) ELSE PyFloat(f.size)>>,
              <<"color", PyInt(f.color)>> >>)

\* extraction = {"pages": [[span_info]]}
PyExtraction(pages) ==
    PyDict(<< <<"pages",
                PyList([p \in 1..Len(pages) |->
                    PyList([i \in 1..Len(pages[p]) |-> PySpanInfo(pages[p][i])])])>> >>)

IntLexeme(n) == IF n < 0 THEN <<"-">> \o str(0 - n) ELSE str(n)
FloatLexeme(n) == IntLexeme(n) \o <<".", "0">>

\* json.dump drops the members whose value is empty or zero
RECURSIVE JsonDump_SkipsFalsy(_)
JsonDump_SkipsFalsy(v) ==
    CASE v.py = "str"   -> [js |-> "string", val |-> v.val]
      [] v.py = "int"   -> [js |-> "number", val |-> IntLexeme(v.val)]
      [] v.py = "float" -> [js |-> "number", val |-> FloatLexeme(v.val)]
      [] v.py \in {"list", "tuple"} ->
            [js |-> "array",
             val |-> [i \in 1..Len(v.val) |-> JsonDump_SkipsFalsy(v.val[i])]]
      [] v.py = "dict"  ->
            LET kept == SelectSeq(v.val, LAMBDA m :
                            CASE m[2].py = "str" -> m[2].val # ""
                              [] m[2].py \in {"int", "float"} -> m[2].val # 0
                              [] OTHER -> Len(m[2].val) # 0)
            IN  [js |-> "object",
                 val |-> [i \in 1..Len(kept) |->
                            <<kept[i][1], JsonDump_SkipsFalsy(kept[i][2])>>]]

\* json.dump(extraction_result, json_file)
RECURSIVE JsonDump(_)
JsonDump(v) ==
    CASE v.py = "str"   -> [js |-> "string", val |-> v.val]
      [] v.py = "int"   -> [js |-> "number", val |-> IntLexeme(v.val)]
      [] v.py = "float" -> [js |-> "number", val |-> FloatLexeme(v.val)]
      [] v.py \in {"list", "tuple"} ->
            [js |-> "array", val |-> [i \in 1..Len(v.val) |-> JsonDump(v.val[i])]]
      [] v.py = "dict"  ->
            [js |-> "object",
             val |-> [i \in 1..Len(v.val) |-> <<v.val[i][1], JsonDump(v.val[i][2])>>]]

\* the place of the "." of a number, 0 when it has none
DotAt(lexeme) ==
    IF \E i \in 1..Len(lexeme) : lexeme[i] = "."
    THEN CHOOSE i \in 1..Len(lexeme) : lexeme[i] = "."
    ELSE 0

\* json.load(json_file)
RECURSIVE JsonLoad(_)
JsonLoad(j) ==
    CASE j.js = "string" -> PyStr(j.val)
      [] j.js = "number" ->
            IF DotAt(j.val) = 0 THEN PyInt(int(j.val))
            ELSE PyFloat(int(SubSeq(j.val, 1, DotAt(j.val) - 1)))
      [] j.js = "array"  -> PyList([i \in 1..Len(j.val) |-> JsonLoad(j.val[i])])
      [] j.js = "object" ->
            PyDict([i \in 1..Len(j.val) |-> <<j.val[i][1], JsonLoad(j.val[i][2])>>])

(***************************************************************************)
(* The routes (routes.py) and the deletion threads (utils.py).  One file   *)
(* id is followed: the upload that creates it, and the edit and save       *)
(* requests made for it.                                                   *)
(***************************************************************************)
MaxSaves == 2

\* a JSON file left unfinished by a failed write
Truncated == [js |-> "truncated", val |-> <<>>]

Redirect(to)    == [kind |-> "redirect", to |-> to, body |-> <<>>]
Rendered(page)  == [kind |-> "page", to |-> page, body |-> <<>>]
SendFile(bytes) == [kind |-> "download", to |-> "", body |-> bytes]
\* what the server answers when a handler lets an exception escape
ServerError     == [kind |-> "error", to |-> "", body |-> <<>>]

\* the variables of one call of extract or apply
callvars == <<op, edits, doc, redacts, handle, pc, page_number, spans, todo,
          annotations, item, extraction, outcome, output, log>>

\* a handler calls extract_text_from_pdf or apply_text_edits_to_pdf
CallStart(f, e) ==
    /\ op' = f
    /\ edits' = e
    /\ doc' = <<>>
    /\ redacts' = <<>>
    /\ handle' = "none"
    /\ pc' = "open"
    /\ page_number' = 0
    /\ spans' = <<>>
    /\ todo' = <<>>
    /\ annotations' = <<>>
    /\ item' = 1
    /\ extraction' = <<>>
    /\ outcome' = "running"
    /\ output' = <<>>
    /\ log' = <<>>

\* schedule_file_deletion(path, FILE_RETENTION_TIME): the thread is started
Scheduled(path) == [timers EXCEPT ![path] = "sleeping"]

\* upload, lines 46-78: reject the request, or save the file, schedule its
\* deletion and call extract
Upload ==
    /\ req = "idle" /\ exists = {} /\ timers = NoTimers
    /\ \/ /\ response' = Redirect("upload")          \* lines 48-56, 92-94
          /\ UNCHANGED <<callvars, exists, timers, req>>
       \/ /\ \E written \in BOOLEAN :                \* lines 68-71
                exists' = IF written THEN {file_path} ELSE {}
          /\ response' = Redirect("upload")
          /\ UNCHANGED <<callvars, timers, req>>
       \/ /\ exists' = {file_path}                   \* lines 67, 74, 78
          /\ timers' = Scheduled(file_path)
          /\ CallStart("extract", EditSetOf(<<>>))
          /\ req' = "upload"
          /\ response' = NoResponse
    /\ UNCHANGED <<file, sidecar, extraction_result, saves, plans>>

\* upload, lines 85-88: extract raised
UploadExtractFailed ==
    /\ req = "upload" /\ pc = "done" /\ outcome = "raised"
    /\ response' = Redirect("upload")
    /\ req' = "idle"
    /\ UNCHANGED <<callvars, file, sidecar, extraction_result, exists, timers,
                   saves, plans>>

\* lines 80-84 and 91: the JSON is written and its deletion scheduled
UploadDumpDone ==
    /\ sidecar' = JsonDump(PyExtraction(output))
    /\ exists' = exists \cup {json_path}
    /\ timers' = Scheduled(json_path)
    /\ response' = Redirect("edit")

\* lines 81-82 raise (open, or json.dump after the file was created), then
\* lines 85-88
UploadDumpFailed ==
    /\ \E created \in BOOLEAN :
        /\ exists' = IF created THEN exists \cup {json_path} ELSE exists
        /\ sidecar' = IF created THEN Truncated ELSE sidecar
    /\ response' = Redirect("upload")
    /\ UNCHANGED timers

\* upload, lines 79-91: extract returned
UploadDump ==
    /\ req = "upload" /\ pc = "done" /\ outcome = "returned"
    /\ (UploadDumpDone \/ UploadDumpFailed)
    /\ req' = "idle"
    /\ UNCHANGED <<callvars, file, extraction_result, saves, plans>>

\* edit, lines 108-123
Edit ==
    /\ req = "idle"
    /\ \/ /\ json_path \notin exists                 \* lines 110-112
          /\ response' = Redirect("index")
          /\ UNCHANGED extraction_result
       \/ /\ json_path \in exists                    \* lines 114-116, 123
          /\ sidecar.js = "object"
          /\ extraction_result' = JsonLoad(sidecar)
          /\ response' = Rendered("edit")
       \/ /\ json_path \in exists                    \* lines 117-120
          /\ response' = Redirect("index")
          /\ UNCHANGED extraction_result
    /\ UNCHANGED <<callvars, file, sidecar, exists, timers, req, saves, plans>>

\* the EditSets submitted with a save request
WebEditSets ==
    {EditSetOf(<< <<str(0), <<"0">>>> >>),
     EditSetOf(<< <<str(0), <<"1">>>>, <<str(0), <<"x">>>>, <<str(1), <<"0">>>> >>)}

\* save, lines 135-156: the file is missing, the form holds no usable edits,
\* or apply is called
Save ==
    /\ req = "idle" /\ saves < MaxSaves
    /\ saves' = saves + 1
    /\ \/ /\ file_path \notin exists                 \* lines 137-139
          /\ response' = Redirect("index")
          /\ UNCHANGED <<callvars, req>>
       \/ /\ file_path \in exists                    \* lines 144-152
          /\ response' = Redirect("edit")
          /\ UNCHANGED <<callvars, req>>
       \/ /\ file_path \in exists                    \* lines 143-156
          /\ \E e \in WebEditSets : CallStart("apply", e)
          /\ req' = "save"
          /\ response' = NoResponse
    /\ UNCHANGED <<file, sidecar, extraction_result, exists, timers, plans>>

\* no handler around the call of apply
SaveApplyFailed_Unhandled ==
    /\ outcome = "raised"
    /\ response' = ServerError
    /\ UNCHANGED plans

\* save, lines 157-160: apply raised
SaveApplyFailed ==
    /\ outcome = "raised"
    /\ response' = Redirect("edit")
    /\ UNCHANGED plans

\* the plan of the call of apply that has ended: page by page, the fragments
\* it asked the library to mark, each with its bbox and replacement text
PlanMade ==
    [p \in 1..Len(file) |->
        LET s == Marks(p - 1)
        IN  [i \in 1..Len(s) |-> <<s[i].index, s[i].bbox, s[i].text>>]]

\* save, lines 162-169: the bytes apply returned are sent
SaveSendFile ==
    /\ outcome = "returned"
    /\ response' = SendFile(output)
    /\ plans' = Append(plans, [edits |-> edits, marks |-> PlanMade])

SaveRespond ==
    /\ req = "save" /\ pc = "done"
    /\ (SaveApplyFailed \/ SaveSendFile)
    /\ req' = "idle"
    /\ UNCHANGED <<callvars, file, sidecar, extraction_result, exists, timers,
                   saves>>

\* deletion_task of schedule_file_deletion: the sleep ends and delete_file
\* removes the file if it exists; a failing os.remove is logged
DeletionTask ==
    \E path \in Paths :
        /\ timers[path] = "sleeping"
        /\ timers' = [timers EXCEPT ![path] = "done"]
        /\ IF path \in exists
           THEN \E removed \in BOOLEAN :
                /\ exists' = IF removed THEN exists \ {path} ELSE exists
                /\ log' = Append(log, [Call("os.remove", -1, removed)
                                          EXCEPT !.text = path])
           ELSE UNCHANGED <<exists, log>>
        /\ UNCHANGED <<op, edits, doc, redacts, handle, pc, page_number,
                       spans, todo, annotations, item, extraction, outcome,
                       output, file, sidecar, extraction_result, req,
                       response, saves, plans>>

\* the documents uploaded
WebDocuments == {<<PageHello>>, <<PageMixed, PageImage>>}

InitWeb ==
    /\ file \in WebDocuments
    /\ op = "extract"
    /\ edits = EditSetOf(<<>>)
    /\ doc = <<>>
    /\ redacts = <<>>
    /\ handle = "none"
    /\ pc = "idle"
    /\ page_number = 0
    /\ spans = <<>>
    /\ todo = <<>>
    /\ annotations = <<>>
    /\ item = 1
    /\ extraction = <<>>
    /\ outcome = "running"
    /\ output = <<>>
    /\ log = <<>>
    /\ sidecar = NoJson
    /\ extraction_result = None
    /\ exists = {}
    /\ timers = NoTimers
    /\ req = "idle"
    /\ response = NoResponse
    /\ saves = 0
    /\ plans = <<>>

NextWeb ==
    \/ Upload
    \/ UploadExtractFailed
    \/ UploadDump
    \/ Edit
    \/ Save
    \/ SaveRespond
    \/ DeletionTask
    \/ Open
    \/ ExtractPage
    \/ ExtractReturn
    \/ ApplyPage
    \/ ApplyPlan
    \/ ApplyCommit
    \/ ApplyInsert
    \/ ApplyNextPage
    \/ ApplySave

SpecWeb == InitWeb /\ [][NextWeb]_vars

(***************************************************************************)
(* extract_text_from_pdf on its own, over documents that also hold an      *)
(* empty page and a page of irregular blocks: a block without a "type"     *)
(* key, a text block without "lines", an empty line.                       *)
(***************************************************************************)
PageEmpty == <<>>
PageOdd == <<[lines |-> << <<SpanHello>> >>],
             [type |-> 0],
             TextBlock(<< <<>>, <<SpanTitle>>, <<SpanBare, SpanOver>> >>)>>

ExtractPageKinds == PageKinds \cup {PageEmpty, PageOdd}
ExtractDocuments == SeqsUpTo(ExtractPageKinds, MaxPages)

InitExtract ==
    /\ op = "extract"
    /\ file \in ExtractDocuments
    /\ edits = EditSetOf(<<>>)
    /\ doc = <<>>
    /\ redacts = <<>>
    /\ handle = "none"
    /\ pc = "open"
    /\ page_number = 0
    /\ spans = <<>>
    /\ todo = <<>>
    /\ annotations = <<>>
    /\ item = 1
    /\ extraction = <<>>
    /\ outcome = "running"
    /\ output = <<>>
    /\ log = <<>>
    /\ sidecar = NoJson
    /\ extraction_result = None
    /\ exists = {file_path}
    /\ timers = [NoTimers EXCEPT ![file_path] = "sleeping"]
    /\ req = "upload"
    /\ response = NoResponse
    /\ saves = 0
    /\ plans = <<>>

NextExtract ==
    \/ Open
    \/ ExtractPage
    \/ ExtractReturn
    \/ UploadDump
    \/ UploadExtractFailed
    \/ Edit

SpecExtract == InitExtract /\ [][NextExtract]_vars

\* the places <<block, line, span>> of the spans of the text blocks of a page
Places(blocks) ==
    UNION {UNION {{<<b, l, s>> : s \in 1..Len(blocks[b].lines[l])} :
                     l \in 1..Len(blocks[b].lines)} :
              b \in {c \in 1..Len(blocks) :
                        /\ "type" \in DOMAIN blocks[c]
                        /\ blocks[c].type = 0
                        /\ "lines" \in DOMAIN blocks[c]}}

\* block, line, span order
Precedes(x, y) ==
    \/ x[1] < y[1]
    \/ x[1] = y[1] /\ x[2] < y[2]
    \/ x[1] = y[1] /\ x[2] = y[2] /\ x[3] < y[3]

Rank(P, x) == Cardinality({y \in P : Precedes(y, x)}) + 1

\* the fragment list is the spans at the places of the page, in order
ListsPlaces(list, blocks) ==
    LET P == Places(blocks) IN
    /\ Len(list) = Cardinality(P)
    /\ \A x \in P :
        LET span == blocks[x[1]].lines[x[2]][x[3]]
            frag == list[Rank(P, x)]
        IN  /\ frag.text = (IF "text" \in DOMAIN span THEN span.text ELSE "")
            /\ frag.bbox = (IF "bbox" \in DOMAIN span THEN span.bbox ELSE <<>>)
            /\ frag.font = (IF "font" \in DOMAIN span THEN span.font ELSE "")
            /\ frag.size = (IF "size" \in DOMAIN span THEN span.size ELSE 0)
            /\ frag.color = (IF "color" \in DOMAIN span THEN span.color ELSE 0)

(***************************************************************************)
(* C12: extract returns one fragment list per document page, in page       *)
(* order; each list holds exactly the spans of the page's blocks of type   *)
(* 0, in block, line, span order, so a page of image blocks only, an empty *)
(* page and an empty document give empty lists; and extract raises only    *)
(* when a library call (open, page load, get_text) has failed.             *)
(***************************************************************************)
C12_ExtractListsTextSpansInOrder ==
    op = "extract" =>
        /\ outcome = "returned" =>
            /\ Len(output) = Len(file)
            /\ \A p \in 1..Len(file) : ListsPlaces(output[p], file[p])
        /\ outcome = "raised" =>
            log # <<>> /\ ~log[Len(log)].ok
        /\ (pc = "done" /\ AllOk) => outcome = "returned"

C12_Witness ==
    /\ op = "extract" /\ outcome = "returned"
    /\ file = <<PageImage, PageOdd>>
    /\ output[1] = <<>>
    /\ Len(output[2]) = 3
    /\ output[2][3].text = "over"

\* an empty document and an empty page are extracted without raising
C12_WitnessEmpty ==
    /\ op = "extract" /\ outcome = "returned"
    /\ file \in {<<>>, <<PageEmpty>>}

(***************************************************************************)
(* C13: the FragmentModel read back by the edit page equals the one        *)
(* extract produced: as many pages, as many fragments on each page, and    *)
(* for every fragment the same text, bbox coordinates, font, size and      *)
(* color.                                                                  *)
(***************************************************************************)
\* the value of a dict (as its items) at a key
Item(d, key) == (CHOOSE i \in 1..Len(d.val) : d.val[i][1] = key)
ItemOf(d, key) == d.val[Item(d, key)][2]
Keys(d) == {d.val[i][1] : i \in 1..Len(d.val)}

SameFragment(py, f) ==
    /\ py.py = "dict"
    /\ Keys(py) = {"text", "bbox", "font", "size", "color"}
    /\ Len(py.val) = 5
    /\ ItemOf(py, "text").val = f.text
    /\ Len(ItemOf(py, "bbox").val) = Len(f.bbox)
    /\ \A i \in 1..Len(f.bbox) : ItemOf(py, "bbox").val[i].val = f.bbox[i]
    /\ ItemOf(py, "font").val = f.font
    /\ ItemOf(py, "size").val = f.size
    /\ ItemOf(py, "color").val = f.color

C13_JsonRoundTrip ==
    extraction_result # None =>
        /\ Keys(extraction_result) = {"pages"}
        /\ LET pages == ItemOf(extraction_result, "pages").val IN
            /\ Len(pages) = Len(output)
            /\ \A p \in 1..Len(output) :
                /\ Len(pages[p].val) = Len(output[p])
                /\ \A i \in 1..Len(output[p]) :
                    SameFragment(pages[p].val[i], output[p][i])

C13_Witness ==
    /\ extraction_result # None
    /\ file = <<PageMixed, PageHello>>
    /\ Len(ItemOf(extraction_result, "pages").val[1].val) = 3
    /\ ItemOf(ItemOf(extraction_result, "pages").val[2].val[1], "bbox").val[4].val = 20

(***************************************************************************)
(* C14: when extract or apply has ended, by returning or by raising, the   *)
(* document handle it opened has been closed.                              *)
(***************************************************************************)
C14_HandleReleasedOnEveryExit ==
    pc = "done" => handle # "open"

(***************************************************************************)
(* C15: whenever apply returns, the calls made on a page that has an       *)
(* entry in the EditSet are, in this order, its redaction marks, one       *)
(* commit, and its insertions; an insertion was made only after a          *)
(* successful commit of the page and only for an entry whose mark had been *)
(* added successfully.                                                     *)
(***************************************************************************)
C15_MarkCommitInsertOrder ==
    (op = "apply" /\ outcome = "returned") =>
        \A p \in PageIndexes :
            LET m   == Marks(p)
                c   == Commits(p)
                ins == Inserts(p)
            IN  /\ HasEntry(p) => Len(c) = 1
                /\ PageCalls(p) = m \o c \o ins
                /\ ins # <<>> => Len(c) = 1 /\ c[1].ok
                /\ \A k \in 1..Len(ins) :
                    \E i \in 1..Len(m) :
                        /\ m[i].ok
                        /\ m[i].index = ins[k].index
                        /\ m[i].text = ins[k].text

C15_Witness ==
    /\ op = "apply" /\ outcome = "returned"
    /\ \E p \in PageIndexes :
        /\ Len(Marks(p)) = 2
        /\ Marks(p)[1].ok /\ ~Marks(p)[2].ok
        /\ Len(Commits(p)) = 1 /\ Commits(p)[1].ok
        /\ Len(Inserts(p)) = 1
        /\ Inserts(p)[1].index = Marks(p)[1].index

(***************************************************************************)
(* C16: every replacement text is drawn with the font "helv" when the      *)
(* targeted fragment's font is empty or absent and with the size 12 when   *)
(* its size is zero or absent, and otherwise with the fragment's own font  *)
(* and size; so never with an empty font name or a size of 0.              *)
(***************************************************************************)
C16_PlanFontAndSizeDefaults ==
    op = "apply" =>
        \A i \in 1..Len(log) :
            log[i].call = "insert_text" =>
                LET f == Fragments(log[i].page)[log[i].index + 1] IN
                /\ log[i].font = (IF f.font = "" THEN "helv" ELSE f.font)
                /\ log[i].size = (IF f.size = 0 THEN 12 ELSE f.size)
                /\ log[i].font # ""
                /\ log[i].size # 0

(***************************************************************************)
(* C17: every replacement text is drawn at the anchor (x0, y1 - 1) of the  *)
(* bbox (x0, y0, x1, y1) of the fragment it replaces, with the text of the *)
(* edit, the font name and size of the plan entry, and in solid black      *)
(* whatever the color of the fragment.                                     *)
(***************************************************************************)
C17_InsertionAnchorFontAndColor ==
    op = "apply" =>
        \A i \in 1..Len(log) :
            log[i].call = "insert_text" =>
                LET span == PageSpans(file[log[i].page + 1])[log[i].index + 1] IN
                /\ log[i].bbox = <<span.bbox[1], span.bbox[4] - 1>>
                /\ log[i].font = (IF "font" \in DOMAIN span THEN span.font ELSE "helv")
                /\ log[i].size = (IF "size" \in DOMAIN span THEN span.size ELSE 12)
                /\ log[i].color = <<0, 0, 0>>
                /\ \E e \in Range(EditsFor(log[i].page)) :
                    /\ IsIntKey(e[1])
                    /\ KeyInt(e[1]) = log[i].index
                    /\ e[2] = log[i].text

\* "Bonjour" replaces the colored fragment of bbox [10,10,50,20] at (10,19)
C17_Witness ==
    /\ op = "apply" /\ outcome = "returned"
    /\ \E i \in 1..Len(log) :
        /\ log[i].call = "insert_text" /\ log[i].ok
        /\ log[i].text = "Bonjour"
        /\ log[i].bbox = <<10, 19>>
        /\ log[i].color = <<0, 0, 0>>
        /\ Fragments(log[i].page)[log[i].index + 1].color = 255

(***************************************************************************)
(* C20: within one apply call no fragment is marked twice and no fragment  *)
(* receives two replacement texts: two redaction marks, or two insertions, *)
(* on the same page never name the same fragment index.                    *)
(***************************************************************************)
C20_AtMostOneEntryPerFragment ==
    op = "apply" =>
        \A i, j \in 1..Len(log) :
            (/\ i < j
             /\ log[i].call \in {"add_redact_annot", "insert_text"}
             /\ log[i].call = log[j].call
             /\ log[i].page = log[j].page) => log[i].index # log[j].index

(***************************************************************************)
(* C18: whatever the moment at which the deletion thread removes the       *)
(* stored PDF, no request is answered by an unhandled error, and a save    *)
(* request that sends a file sends the document that apply serialized      *)
(* completely: apply returned, its final write succeeded after every page  *)
(* was processed, and the bytes sent are its output, one page per page of  *)
(* the stored document.                                                    *)
(***************************************************************************)
C18_SaveReturnsWholeFileOrNotice ==
    /\ response.kind \in {"none", "redirect", "page", "download"}
    /\ response.kind = "download" =>
        /\ op = "apply" /\ outcome = "returned"
        /\ response.body = output
        /\ output = doc
        /\ Len(response.body) = Len(file)
        /\ page_number = Len(file)
        /\ \E i \in 1..Len(log) : log[i].call = "save" /\ log[i].ok
    /\ (op = "apply" /\ req = "idle" /\ outcome = "raised") =>
        response.kind \in {"redirect", "page"}

\* the PDF was removed while apply ran, and the whole file was still sent
C18_Witness ==
    /\ response.kind = "download"
    /\ file_path \notin exists
    /\ \E i, j, k \in 1..Len(log) :
        /\ i < j /\ j < k
        /\ log[i].call = "open"
        /\ log[j].call = "os.remove" /\ log[j].ok /\ log[j].text = file_path
        /\ log[k].call = "save"

\* the PDF was removed between the existence check and the open
C18_WitnessBeforeOpen ==
    /\ op = "apply" /\ req = "idle" /\ outcome = "raised"
    /\ response = Redirect("edit")
    /\ Len(log) = 2
    /\ log[1].call = "os.remove" /\ log[1].ok /\ log[1].text = file_path
    /\ log[2].call = "open" /\ ~log[2].ok

(***************************************************************************)
(* C19: once the upload handler has ended, every file present in the       *)
(* upload folder has a deletion thread: one that is sleeping, or one that  *)
(* has run.                                                                *)
(***************************************************************************)
C19_EveryCreatedFileScheduled ==
    req # "upload" => \A path \in exists : timers[path] # "none"

(***************************************************************************)
(* C21: apply leaves the stored PDF and the stored FragmentModel as the    *)
(* upload wrote them.  Between requests, after any number of save          *)
(* requests, the FragmentModel the edit page has shown still lists, page   *)
(* by page and index by index, the fragments of the stored PDF; every      *)
(* fragment a save marked is the fragment shown under that index; and two  *)
(* save requests that carried the same EditSet and got their file made the *)
(* same plan: the same fragments marked, with the same replacement texts.  *)
(***************************************************************************)
\* the pages the edit page shows: the stored FragmentModel as edit read it
Shown == ItemOf(extraction_result, "pages").val

\* the shown fragment s has the bounding box bbox
ShownAt(s, bbox) ==
    /\ Len(ItemOf(s, "bbox").val) = Len(bbox)
    /\ \A c \in 1..Len(bbox) : ItemOf(s, "bbox").val[c].val = bbox[c]

C21_SavesLeaveStoredFilesAlone ==
    /\ (req = "idle" /\ extraction_result # None) =>
        LET pages == Shown IN
        /\ Len(pages) = Len(file)
        /\ \A p \in 1..Len(file) :
            LET f == ExtractPageSpans(file[p])
                s == pages[p].val
            IN  /\ Len(s) = Len(f)
                /\ \A i \in 1..Len(f) : SameFragment(s[i], f[i])
                /\ \A n \in 1..Len(plans) :
                    \A i \in 1..Len(plans[n].marks[p]) :
                        LET m == plans[n].marks[p][i] IN
                        /\ m[1] + 1 \in 1..Len(s)
                        /\ ShownAt(s[m[1] + 1], m[2])
    /\ \A a, b \in 1..Len(plans) :
        plans[a].edits = plans[b].edits => plans[a].marks = plans[b].marks

\* two save requests with the same EditSet were both answered by a file
\* that differs from the stored one, each after marking a fragment
C21_Witness ==
    /\ req = "idle" /\ extraction_result # None
    /\ Len(plans) = 2
    /\ plans[1].edits = plans[2].edits
    /\ Len(file) = 2
    /\ Len(plans[1].marks[1]) = 1
    /\ response.kind = "download" /\ response.body # file

(***************************************************************************)
(* C22: whenever the edit page can be served for the file id, that is, its *)
(* extraction JSON is in the upload folder and holds the FragmentModel,    *)
(* the stored PDF is in the upload folder too, so that a save request      *)
(* made from that page finds it.                                           *)
(***************************************************************************)
C22_PdfOutlivesJson ==
    (json_path \in exists /\ sidecar.js = "object") => file_path \in exists
====
